---- MODULE Spec2Model ----
(***************************************************************************)
(* Model of the recommendation pipeline of NS-Node-Setup-Helper:           *)
(*   - the recommendations route (parseModelJson, unwrapRecommendations),  *)
(*   - the questionnaire form's PDF request (handleGeneratePdf),           *)
(*   - the PDF route (parseJsonFromString, normalizeInput, the structured  *)
(*     view, the page cursor and its draw helpers).                        *)
(*                                                                         *)
(* JavaScript strings are sequences of characters, each a one-character    *)
(* string (the backquote is the string "backquote").  JavaScript           *)
(* values are tagged records [t, v]; an object is the sequence of its      *)
(* <<key, value>> pairs in insertion order.  JSON.parse and JSON.stringify *)
(* are modelled character by character.  The number grammar is restricted  *)
(* to unsigned integers and the escapes to \" \\ \/ \n \t \r \f; the       *)
(* inputs use no other number syntax or escape.                            *)
(***************************************************************************)
EXTENDS Integers, Sequences, FiniteSets, TLC

VARIABLES
    mode,       \* "pipeline": text -> recommendations route -> form -> PDF route; "direct": a body posted to the PDF route
    pc,         \* position in the request flow
    text,       \* result.text, the reply of the text-generation provider
    usage,      \* result.providerMetadata?.openrouter?.usage
    parsed,     \* recommendations route: parseModelJson(result.text)
    results,    \* form state results (the JSON answer of the recommendations route)
    body,       \* PDF route: await request.json()
    norm,       \* PDF route: normalizeInput(body), [doc, rawText]
    depth,      \* deepest nesting of the double-encoding recursion run so far
    view,       \* PDF route: recommendations, summary and the fallback section chosen
    calls,      \* PDF route: the drawing calls of the render still to be made
    y,          \* PDF route: the vertical cursor, in hundredths of a point
    pages,      \* PDF route: the sizes of the pages added to the document; the last one is the current page
    drawn,      \* PDF route: the page.drawText calls made so far
    response    \* PDF route: the response returned to the caller

normVars == <<mode, text, usage, parsed, results, body, norm, depth, view>>
renderVars == <<calls, y, pages, drawn>>
vars == <<mode, pc, text, usage, parsed, results, body, norm, depth, view, calls, y, pages, drawn, response>>

----------------------------------------------------------------------------
(* JavaScript values *)

JNull == [t |-> "null", v |-> 0]
Undefined == [t |-> "undefined", v |-> 0]
Thrown == [t |-> "thrown", v |-> 0]
JBool(b) == [t |-> "bool", v |-> b]
JNum(n) == [t |-> "num", v |-> n]
JStr(s) == [t |-> "str", v |-> s]
JArr(a) == [t |-> "arr", v |-> a]
JObj(p) == [t |-> "obj", v |-> p]

IsString(x) == x.t = "str"
IsArray(x) == x.t = "arr"

\* typeof v === "object" && v !== null && !Array.isArray(v)
isPlainObject(x) == x.t = "obj"

\* key in obj
HasKey(o, k) == \E n \in 1..Len(o.v) : o.v[n][1] = k

\* obj[key]; undefined when the key is absent (keys are unique in an object)
Get(o, k) ==
    IF o.t = "obj" /\ HasKey(o, k)
    THEN o.v[CHOOSE n \in 1..Len(o.v) : o.v[n][1] = k][2]
    ELSE Undefined

\* assignment of a property while parsing: a repeated key keeps its first position and takes the last value
PutKey(p, k, x) ==
    IF \E n \in 1..Len(p) : p[n][1] = k
    THEN [n \in 1..Len(p) |-> IF p[n][1] = k THEN <<k, x>> ELSE p[n]]
    ELSE Append(p, <<k, x>>)

----------------------------------------------------------------------------
(* Strings *)

\* whitespace of the JSON grammar, and of String.prototype.trim and the regular expression class \s
JsonWS == {" ", "\n", "\t", "\r"}
JsWS == JsonWS \cup {"\f"}
Digits == <<"0", "1", "2", "3", "4", "5", "6", "7", "8", "9">>
IsDigit(c) == \E d \in 1..10 : Digits[d] = c
DigitVal(c) == (CHOOSE d \in 1..10 : Digits[d] = c) - 1

Sub(s, a, b) == IF a > b THEN <<>> ELSE SubSeq(s, a, b)

\* s.startsWith(p, from i)
HasAt(s, i, p) == i + Len(p) - 1 <= Len(s) /\ Sub(s, i, i + Len(p) - 1) = p

\* first index j >= i that is past the end or not in the whitespace set W
SkipIn(s, i, W) ==
    CHOOSE j \in i..(Len(s) + 1) :
        /\ \A k \in i..(j - 1) : s[k] \in W
        /\ (j = Len(s) + 1 \/ s[j] \notin W)

SkipWS(s, i) == SkipIn(s, i, JsonWS)

\* String.prototype.trimEnd
trimEnd(s) ==
    IF \A k \in 1..Len(s) : s[k] \in JsWS THEN <<>>
    ELSE SubSeq(s, 1, CHOOSE j \in 1..Len(s) :
                          /\ s[j] \notin JsWS
                          /\ \A k \in (j + 1)..Len(s) : s[k] \in JsWS)

\* String.prototype.trim
trim(s) ==
    LET t == trimEnd(s)
    IN  Sub(t, SkipIn(t, 1, JsWS), Len(t))

\* s.indexOf(p, from), 1-based; 0 when absent
IndexFrom(s, p, from) ==
    IF \E j \in from..Len(s) : HasAt(s, j, p)
    THEN CHOOSE j \in from..Len(s) : HasAt(s, j, p) /\ \A k \in from..(j - 1) : ~HasAt(s, k, p)
    ELSE 0

----------------------------------------------------------------------------
(* JSON.stringify *)

RECURSIVE NumStr(_)
NumStr(n) == IF n < 10 THEN <<Digits[n + 1]>> ELSE NumStr(n \div 10) \o <<Digits[(n % 10) + 1]>>

EscapeChar(c) ==
    CASE c = "\"" -> <<"\\", "\"">>
      [] c = "\\" -> <<"\\", "\\">>
      [] c = "\n" -> <<"\\", "n">>
      [] c = "\t" -> <<"\\", "t">>
      [] c = "\r" -> <<"\\", "r">>
      [] c = "\f" -> <<"\\", "f">>
      [] OTHER -> <<c>>

RECURSIVE EscapeRange(_, _, _)
\* the escaped characters of s[a..b], by halves
EscapeRange(s, a, b) ==
    IF a > b THEN <<>>
    ELSE IF a = b THEN EscapeChar(s[a])
    ELSE LET m == (a + b) \div 2 IN EscapeRange(s, a, m) \o EscapeRange(s, m + 1, b)

\* the JSON string literal of s
Quote(s) == <<"\"">> \o EscapeRange(s, 1, Len(s)) \o <<"\"">>

Spaces(n) == [k \in 1..n |-> " "]

\* the properties JSON.stringify writes: those whose value is not undefined
Written(p) == SelectSeq(p, LAMBDA kv : kv[2] # Undefined)

\* the line break and indentation JSON.stringify writes when gap > 0
Newline(gap, ind) == IF gap = 0 THEN <<>> ELSE <<"\n">> \o Spaces(ind)
Colon(gap) == IF gap = 0 THEN <<":">> ELSE <<":", " ">>

RECURSIVE StringifyIndent(_, _, _), JoinElems(_, _, _, _), JoinProps(_, _, _, _)
\* JSON.stringify(x, null, gap) at nesting indentation ind; gap = 0 is JSON.stringify(x)
StringifyIndent(x, gap, ind) ==
    CASE x.t = "null" -> <<"n", "u", "l", "l">>
      [] x.t = "undefined" -> <<"n", "u", "l", "l">>
      [] x.t = "bool" -> IF x.v THEN <<"t", "r", "u", "e">> ELSE <<"f", "a", "l", "s", "e">>
      [] x.t = "num" -> NumStr(x.v)
      [] x.t = "str" -> Quote(x.v)
      [] x.t = "arr" ->
            IF Len(x.v) = 0 THEN <<"[", "]">>
            ELSE <<"[">> \o Newline(gap, ind + gap) \o JoinElems(x.v, 1, gap, ind + gap)
                     \o Newline(gap, ind) \o <<"]">>
      [] x.t = "obj" ->
            IF Len(Written(x.v)) = 0 THEN <<"{", "}">>
            ELSE <<"{">> \o Newline(gap, ind + gap) \o JoinProps(Written(x.v), 1, gap, ind + gap)
                     \o Newline(gap, ind) \o <<"}">>

JoinElems(a, i, gap, ind) ==
    StringifyIndent(a[i], gap, ind)
        \o (IF i = Len(a) THEN <<>>
            ELSE <<",">> \o Newline(gap, ind) \o JoinElems(a, i + 1, gap, ind))

JoinProps(p, i, gap, ind) ==
    Quote(p[i][1]) \o Colon(gap) \o StringifyIndent(p[i][2], gap, ind)
        \o (IF i = Len(p) THEN <<>>
            ELSE <<",">> \o Newline(gap, ind) \o JoinProps(p, i + 1, gap, ind))

\* JSON.stringify(x)
Stringify(x) == StringifyIndent(x, 0, 0)

----------------------------------------------------------------------------
(* JSON.parse *)

ParseFail == [ok |-> FALSE, v |-> Undefined, i |-> 0]

UnescapeChar(c) ==
    CASE c = "\"" -> "\""
      [] c = "\\" -> "\\"
      [] c = "/" -> "/"
      [] c = "n" -> "\n"
      [] c = "t" -> "\t"
      [] c = "r" -> "\r"
      [] c = "f" -> "\f"
      [] OTHER -> ""

\* number of consecutive backslashes that end right before s[p], counted from s[i] on
RunBefore(s, i, p) ==
    (p - 1) - (CHOOSE r \in (i - 1)..(p - 1) :
                   /\ (r = i - 1 \/ s[r] # "\\")
                   /\ \A k \in (r + 1)..(p - 1) : s[k] = "\\")

\* s[p] is the character of an escape sequence, after its backslash
Escaped(s, i, p) == RunBefore(s, i, p) % 2 = 1

\* s[p] closes the string literal opened before s[i]
ClosesAt(s, i, p) == s[p] = "\"" /\ ~Escaped(s, i, p)

\* s[p] cannot stand inside a string literal: an unknown escape, or a raw control character
BadAt(s, i, p) ==
    IF Escaped(s, i, p) THEN UnescapeChar(s[p]) = ""
    ELSE s[p] \in {"\n", "\t", "\r", "\f"}

\* the character s[p] contributes to the value of the literal ("" for the backslash of an escape)
CharAt(s, i, p) ==
    IF Escaped(s, i, p) THEN UnescapeChar(s[p])
    ELSE IF s[p] = "\\" THEN ""
    ELSE s[p]

\* the literal whose body is s[i..j-1] and whose closing quote is s[j]
ParseStrUpTo(s, i, j) ==
    IF \E p \in i..(j - 1) : BadAt(s, i, p) THEN ParseFail
    ELSE [ok |-> TRUE,
          v |-> JStr(SelectSeq([n \in 1..(j - i) |-> CharAt(s, i, i + n - 1)], LAMBDA c : c # "")),
          i |-> j + 1]

\* the characters of a string literal after its opening quote (s[i]), up to the closing quote
ParseStrBody(s, i) ==
    IF ~\E j \in i..Len(s) : ClosesAt(s, i, j) THEN ParseFail
    ELSE ParseStrUpTo(s, i, CHOOSE j \in i..Len(s) :
                                 ClosesAt(s, i, j) /\ \A k \in i..(j - 1) : ~ClosesAt(s, i, k))

RECURSIVE ParseDigits(_, _, _)
ParseDigits(s, i, n) ==
    IF i <= Len(s) /\ IsDigit(s[i]) THEN ParseDigits(s, i + 1, 10 * n + DigitVal(s[i]))
    ELSE [ok |-> TRUE, v |-> JNum(n), i |-> i]

ParseNumber(s, i) ==
    IF s[i] = "0" THEN [ok |-> TRUE, v |-> JNum(0), i |-> i + 1] ELSE ParseDigits(s, i, 0)

RECURSIVE ParseValue(_, _), ParseElems(_, _, _), ParseMembers(_, _, _)
RECURSIVE ParseOpen(_, _, _), ParseElemsAfter(_, _, _), ParseMemberValue(_, _, _)
RECURSIVE ParseMembersAfter(_, _, _, _)
\* one JSON value starting at s[i] (leading whitespace already skipped)
ParseValue(s, i) ==
    IF i > Len(s) THEN ParseFail
    ELSE IF s[i] = "\"" THEN ParseStrBody(s, i + 1)
    ELSE IF IsDigit(s[i]) THEN ParseNumber(s, i)
    ELSE IF HasAt(s, i, <<"n", "u", "l", "l">>) THEN [ok |-> TRUE, v |-> JNull, i |-> i + 4]
    ELSE IF HasAt(s, i, <<"t", "r", "u", "e">>) THEN [ok |-> TRUE, v |-> JBool(TRUE), i |-> i + 4]
    ELSE IF HasAt(s, i, <<"f", "a", "l", "s", "e">>) THEN [ok |-> TRUE, v |-> JBool(FALSE), i |-> i + 5]
    ELSE IF s[i] = "[" \/ s[i] = "{" THEN ParseOpen(s, s[i], SkipWS(s, i + 1))
    ELSE ParseFail

\* an array or an object whose opening bracket was read, its content starting at s[j]
ParseOpen(s, bracket, j) ==
    IF bracket = "["
    THEN IF j <= Len(s) /\ s[j] = "]" THEN [ok |-> TRUE, v |-> JArr(<<>>), i |-> j + 1]
         ELSE ParseElems(s, j, <<>>)
    ELSE IF j <= Len(s) /\ s[j] = "}" THEN [ok |-> TRUE, v |-> JObj(<<>>), i |-> j + 1]
         ELSE ParseMembers(s, j, <<>>)

\* the elements of an array from s[i] on, after acc
ParseElems(s, i, acc) == ParseElemsAfter(s, ParseValue(s, i), acc)

\* what follows the element e: the closing bracket, or a comma and more elements
ParseElemsAfter(s, e, acc) ==
    IF ~e.ok \/ SkipWS(s, e.i) > Len(s) THEN ParseFail
    ELSE IF s[SkipWS(s, e.i)] = "]"
        THEN [ok |-> TRUE, v |-> JArr(Append(acc, e.v)), i |-> SkipWS(s, e.i) + 1]
    ELSE IF s[SkipWS(s, e.i)] = ","
        THEN ParseElems(s, SkipWS(s, SkipWS(s, e.i) + 1), Append(acc, e.v))
    ELSE ParseFail

\* the members of an object from s[i] on, after acc
ParseMembers(s, i, acc) ==
    IF i > Len(s) \/ s[i] # "\"" THEN ParseFail
    ELSE ParseMemberValue(s, ParseStrBody(s, i + 1), acc)

\* the colon and the value of the member whose name is k
ParseMemberValue(s, k, acc) ==
    IF ~k.ok \/ SkipWS(s, k.i) > Len(s) THEN ParseFail
    ELSE IF s[SkipWS(s, k.i)] # ":" THEN ParseFail
    ELSE ParseMembersAfter(s, k.v.v, ParseValue(s, SkipWS(s, SkipWS(s, k.i) + 1)), acc)

\* what follows the member name: e, the closing brace, or a comma and more members
ParseMembersAfter(s, name, e, acc) ==
    IF ~e.ok \/ SkipWS(s, e.i) > Len(s) THEN ParseFail
    ELSE IF s[SkipWS(s, e.i)] = "}"
        THEN [ok |-> TRUE, v |-> JObj(PutKey(acc, name, e.v)), i |-> SkipWS(s, e.i) + 1]
    ELSE IF s[SkipWS(s, e.i)] = ","
        THEN ParseMembers(s, SkipWS(s, SkipWS(s, e.i) + 1), PutKey(acc, name, e.v))
    ELSE ParseFail

\* the value r read from the start of s, if only whitespace follows it
ParseWhole(s, r) == IF r.ok /\ SkipWS(s, r.i) = Len(s) + 1 THEN r.v ELSE Thrown

\* JSON.parse(s): the parsed value, or Thrown for a SyntaxError
JSONparse(s) == ParseWhole(s, ParseValue(s, SkipWS(s, 1)))

----------------------------------------------------------------------------
(* Property names and literals of the source *)

kRecommendations == <<"r", "e", "c", "o", "m", "m", "e", "n", "d", "a", "t", "i", "o", "n", "s">>
kText == <<"t", "e", "x", "t">>
kRaw == <<"r", "a", "w">>
kUsage == <<"u", "s", "a", "g", "e">>
kNotes == <<"n", "o", "t", "e", "s">>
kTotalEstimatedInitialCost == <<"t", "o", "t", "a", "l", "E", "s", "t", "i", "m", "a", "t", "e", "d", "I", "n", "i", "t", "i", "a", "l", "C", "o", "s", "t">>
kTotalEstimatedMonthlyCost == <<"t", "o", "t", "a", "l", "E", "s", "t", "i", "m", "a", "t", "e", "d", "M", "o", "n", "t", "h", "l", "y", "C", "o", "s", "t">>
kTotalEstimatedCostOverBudget == <<"t", "o", "t", "a", "l", "E", "s", "t", "i", "m", "a", "t", "e", "d", "C", "o", "s", "t", "O", "v", "e", "r", "B", "u", "d", "g", "e", "t">>
kOverBudgetReason == <<"o", "v", "e", "r", "B", "u", "d", "g", "e", "t", "R", "e", "a", "s", "o", "n">>
kLocationCountry == <<"l", "o", "c", "a", "t", "i", "o", "n", "_", "c", "o", "u", "n", "t", "r", "y">>
kLocationState == <<"l", "o", "c", "a", "t", "i", "o", "n", "_", "s", "t", "a", "t", "e">>
kLocationCity == <<"l", "o", "c", "a", "t", "i", "o", "n", "_", "c", "i", "t", "y">>
kServiceName == <<"s", "e", "r", "v", "i", "c", "e", "N", "a", "m", "e">>

\* the backquote character (a TLA+ string cannot hold it)
Backquote == "backquote"

\* the fence marker, three backquotes
Fence == <<Backquote, Backquote, Backquote>>
TagJson == <<"j", "s", "o", "n">>

\* the /i flag on the tag json
Lower(c) ==
    CASE c = "J" -> "j" [] c = "S" -> "s" [] c = "O" -> "o" [] c = "N" -> "n" [] OTHER -> c

\* QuoteWrapped that knows the single quote only
QuoteWrappedSingleOnly(s) == Len(s) >= 1 /\ s[1] = "'" /\ s[Len(s)] = "'"

\* s starts and ends with a double quote, or starts and ends with a single quote
QuoteWrapped(s) ==
    /\ Len(s) >= 1
    /\ \/ (s[1] = "\"" /\ s[Len(s)] = "\"")
       \/ (s[1] = "'" /\ s[Len(s)] = "'")

NoMatch == [found |-> FALSE, cap |-> <<>>]

LowerAll(s) == [k \in 1..Len(s) |-> Lower(s[k])]

\* the index after the opening fence at s[i], the tag json if it follows, and the whitespace after them
AfterOpening(s, i) == SkipIn(s, IF HasAt(LowerAll(s), i + 3, TagJson) THEN i + 7 ELSE i + 3, JsWS)

\* group 1 when it starts at s[p] and the closing fence is at s[q] (q = 0: there is none)
FenceCapture(s, p, q) == IF q = 0 THEN NoMatch ELSE [found |-> TRUE, cap |-> Sub(s, p, q - 1)]

\* the match whose opening fence is at s[i] (i = 0: the text has no fence)
FenceAt(s, i) ==
    IF i = 0 THEN NoMatch
    ELSE FenceCapture(s, AfterOpening(s, i), IndexFrom(s, Fence, AfterOpening(s, i)))

\* the first match of FENCE(?:json)?\s*([\s\S]*?) up to the next FENCE: the
\* opening fence is the first one of the text, the tag and the whitespace are
\* taken greedily, and the capture runs lazily to the first fence after them
FenceSpan(s) == FenceAt(s, IndexFrom(s, Fence, 1))

\* the capture without the whitespace that \s* takes before the closing fence
TrimCapture(m) == IF m.found THEN [found |-> TRUE, cap |-> trimEnd(m.cap)] ELSE NoMatch

\* trimmed.match(/FENCE(?:json)?\s*([\s\S]*?)\s*FENCE/i): group 1 stops before the whitespace that precedes the closing fence
fenceRegexModel(s) == TrimCapture(FenceSpan(s))

\* text.match(/FENCE(?:json)?\s*([\s\S]*?)FENCE/i)
fenceRegexPdf(s) == FenceSpan(s)

\* a or, when a threw, b
OrElse(a, b) == IF a # Thrown THEN a ELSE b

\* JSON.parse of a text wrapped in quotes; Thrown when it is not wrapped or does not parse
Unquote(s) == IF QuoteWrapped(s) THEN JSONparse(s) ELSE Thrown

----------------------------------------------------------------------------
(* recommendations route *)

\* step 2: JSON.parse(trimmed)
DirectForm(trimmed) == JSONparse(trimmed)

\* if (match?.[1]) JSON.parse(match[1].trim())
FencedCapture(m) == IF m.found /\ Len(m.cap) > 0 THEN JSONparse(trim(m.cap)) ELSE Thrown

\* step 3: the content of the first code fence
FencedForm(trimmed) == FencedCapture(fenceRegexModel(trimmed))

\* the smaller of the two indexOf results that is not -1 (here 0)
FirstBracket(firstObj, firstArr) ==
    IF firstObj = 0 THEN firstArr
    ELSE IF firstArr = 0 THEN firstObj
    ELSE IF firstObj < firstArr THEN firstObj ELSE firstArr

\* if (start !== -1) JSON.parse(trimmed.slice(start).trim())
BracketFrom(trimmed, start) ==
    IF start # 0 THEN JSONparse(trim(Sub(trimmed, start, Len(trimmed)))) ELSE Thrown

\* step 4: the text from its first brace or bracket on
BracketForm(trimmed) ==
    BracketFrom(trimmed, FirstBracket(IndexFrom(trimmed, <<"{">>, 1), IndexFrom(trimmed, <<"[">>, 1)))

\* steps 2 to 4 in order, null when none parses
parseModelJsonForms(trimmed) ==
    OrElse(DirectForm(trimmed), OrElse(FencedForm(trimmed), OrElse(BracketForm(trimmed), JNull)))

RECURSIVE parseModelJsonRun(_, _), parseModelJsonDecoded(_, _, _)
\* parseModelJson(text) called at nesting level lvl of the double-encoding
\* recursion: [v |-> the value returned (null on failure), d |-> the deepest level entered]
parseModelJsonRun(txt, lvl) ==
    IF Len(txt) = 0 THEN [v |-> JNull, d |-> lvl]
    ELSE parseModelJsonDecoded(trim(txt), Unquote(trim(txt)), lvl)

\* const again = parseModelJson(decoded); if (again !== null) return again;
\* return parseModelJson(String(decoded)): the second call is the first one again
parseModelJsonDecoded(trimmed, decoded, lvl) ==
    IF decoded # Thrown /\ IsString(decoded)
    THEN parseModelJsonRun(decoded.v, lvl + 1)
    ELSE [v |-> parseModelJsonForms(trimmed), d |-> lvl]

parseModelJson(txt) == parseModelJsonRun(txt, 0).v

\* parsed && typeof parsed === "object" && "recommendations" in parsed
unwrapRecommendations(p) ==
    IF p.t = "obj" /\ HasKey(p, kRecommendations) THEN Get(p, kRecommendations) ELSE p

\* Response.json(x) read back by response.json(): one trip through JSON text
JsonTrip(x) == JSONparse(Stringify(x))

\* parsed !== null ? unwrapRecommendations(parsed) : { text: result.text, raw: true }
RecommendationsOf(txt, p) ==
    IF p # JNull THEN unwrapRecommendations(p)
    ELSE JObj(<< <<kText, JStr(txt)>>, <<kRaw, JBool(TRUE)>> >>)

\* the body of the answer of the recommendations route, as the form reads it
RecommendationsAnswer(txt, use) ==
    JsonTrip(JObj(<< <<kRecommendations, RecommendationsOf(txt, parseModelJson(txt))>>,
                     <<kUsage, use>> >>))

----------------------------------------------------------------------------
(* PDF route: normalization *)

\* parseCandidateThenText without the inner try/catch around JSON.parse(text)
parseCandidateThenTextUncaught(candidate, txt) == OrElse(JSONparse(candidate), JSONparse(txt))

\* try JSON.parse(candidate), catch: try JSON.parse(text), catch: undefined
parseCandidateThenText(candidate, txt) ==
    OrElse(JSONparse(candidate), OrElse(JSONparse(txt), Undefined))

\* (match?.[1] ?? text).trim(), then the two parses
parseFencedOrText(txt, m) == parseCandidateThenText(trim(IF m.found THEN m.cap ELSE txt), txt)

\* the function from const text = input.trim() on
parseJsonFromText(txt) == parseFencedOrText(txt, fenceRegexPdf(txt))

RECURSIVE parseJsonFromStringRun(_, _), parseJsonFromStringDecoded(_, _, _)
RECURSIVE parseJsonFromStringAgain(_, _, _)
\* parseJsonFromString(input) called at nesting level lvl:
\* [v |-> the value returned (undefined on failure), d |-> the deepest level entered]
parseJsonFromStringRun(input, lvl) == parseJsonFromStringDecoded(input, Unquote(trim(input)), lvl)

\* if (typeof decoded === "string") { const again = parseJsonFromString(decoded); ... }
parseJsonFromStringDecoded(input, decoded, lvl) ==
    IF decoded # Thrown /\ IsString(decoded)
    THEN parseJsonFromStringAgain(input, decoded.v, parseJsonFromStringRun(decoded.v, lvl + 1))
    ELSE [v |-> parseJsonFromText(trim(input)), d |-> lvl]

\* if (again !== undefined) return again; input = decoded. The recursive call
\* sits inside the try block: an exception it raised is caught there, before
\* the assignment, and the function goes on with the input it was given
parseJsonFromStringAgain(input, decoded, again) ==
    IF again.v # Thrown /\ again.v # Undefined THEN again
    ELSE [v |-> parseJsonFromText(trim(IF again.v = Thrown THEN input ELSE decoded)), d |-> again.d]

parseJsonFromString(input) == parseJsonFromStringRun(input, 0).v

DocResult(x) == [doc |-> x, rawText |-> Undefined]
RawResult(s) == [doc |-> Undefined, rawText |-> JStr(s)]

\* const parsed = parseJsonFromString(s); if (parsed !== undefined) return { doc: parsed }; return { rawText: s }
DocOrRaw(s, p) ==
    IF p = Thrown THEN Thrown
    ELSE IF p # Undefined THEN DocResult(p)
    ELSE RawResult(s)

\* ParseOrRaw that returns the text next to the parsed document
ParseOrRawKeepsText(s) == [doc |-> parseJsonFromString(s), rawText |-> JStr(s)]

\* ParseOrRaw that falls back to the trimmed text
ParseOrRawTrimmed(s) == DocOrRaw(trim(s), parseJsonFromString(s))

\* the four places of normalizeInput that parse a string and fall back to it
ParseOrRaw(s) == DocOrRaw(s, parseJsonFromString(s))

\* the last resort for an object: its JSON text parsed back, or pretty-printed as raw text
StringifiedOrRaw(b, p) ==
    IF isPlainObject(b) /\ p # Thrown /\ p # Undefined THEN DocResult(p)
    ELSE RawResult(StringifyIndent(b, 2, 0))

\* the branches of normalizeInput for a body that is neither a string nor an array; r is body.recommendations
normalizeObject(b, r) ==
    IF isPlainObject(b) /\ HasKey(b, kRecommendations) /\ IsString(r)
        THEN ParseOrRaw(r.v)
    ELSE IF isPlainObject(b) /\ HasKey(b, kRecommendations)
            /\ isPlainObject(r) /\ IsString(Get(r, kText))
        THEN ParseOrRaw(Get(r, kText).v)
    ELSE IF isPlainObject(b) /\ HasKey(b, kRecommendations) /\ IsArray(r)
        THEN DocResult(b)
    ELSE IF isPlainObject(b) /\ HasKey(b, kRecommendations) /\ isPlainObject(r)
        THEN DocResult(r)
    ELSE IF isPlainObject(b) /\ IsString(Get(b, kText))
        THEN ParseOrRaw(Get(b, kText).v)
    ELSE StringifiedOrRaw(b, parseJsonFromString(Stringify(b)))

normalizeInput(b) ==
    IF IsString(b) THEN ParseOrRaw(b.v)
    ELSE IF IsArray(b) THEN DocResult(b)
    ELSE normalizeObject(b, Get(b, kRecommendations))

----------------------------------------------------------------------------
(* PDF route: the structured view and the section it selects *)

EmptySummary ==
    [totalEstimatedInitialCost |-> Undefined, totalEstimatedMonthlyCost |-> Undefined,
     notes |-> Undefined, totalEstimatedCostOverBudget |-> Undefined, overBudgetReason |-> Undefined]

SummaryOf(doc) ==
    [totalEstimatedInitialCost |-> Get(doc, kTotalEstimatedInitialCost),
     totalEstimatedMonthlyCost |-> Get(doc, kTotalEstimatedMonthlyCost),
     notes |-> Get(doc, kNotes),
     totalEstimatedCostOverBudget |-> Get(doc, kTotalEstimatedCostOverBudget),
     overBudgetReason |-> Get(doc, kOverBudgetReason)]

\* doc is the whole object: a plain object whose recommendations is an array
IsWhole(doc) == isPlainObject(doc) /\ IsArray(Get(doc, kRecommendations))

\* let recommendations = [] and its two assignments
RecommendationsIn(doc) ==
    IF IsArray(doc) THEN doc.v
    ELSE IF IsWhole(doc) THEN Get(doc, kRecommendations).v
    ELSE <<>>

\* rawText ?? (typeof body === "string" ? body : "")
FallbackText(b, n) ==
    IF n.rawText # Undefined THEN n.rawText.v
    ELSE IF IsString(b) THEN b.v ELSE <<>>

\* the branch taken at if (recommendations.length > 0) ... else if (fallback && fallback.trim().length > 0) ...
SectionOf(recommendations, fallback) ==
    IF Len(recommendations) > 0 THEN "structured"
    ELSE IF Len(fallback) > 0 /\ Len(trim(fallback)) > 0 THEN "raw"
    ELSE "placeholder"

\* recommendations, summary, the section drawn and the text of the raw section
BuildView(b, n) ==
    [recommendations |-> RecommendationsIn(n.doc),
     summary |-> IF IsWhole(n.doc) THEN SummaryOf(n.doc) ELSE EmptySummary,
     section |-> SectionOf(RecommendationsIn(n.doc), FallbackText(b, n)),
     fallback |-> IF Len(RecommendationsIn(n.doc)) > 0 THEN <<>> ELSE FallbackText(b, n)]

----------------------------------------------------------------------------
(* PDF route: the texts it draws *)

sTitle ==
    <<"S", "o", "c", "i", "e", "t", "y", "-", "a", "s", "-", "a", "-", "S", "e", "r", "v", "i",
      "c", "e", " ", "R", "e", "c", "o", "m", "m", "e", "n", "d", "a", "t", "i", "o", "n", "s">>

sGenerated ==
    <<"G", "e", "n", "e", "r", "a", "t", "e", "d", " ", "o", "n", ":", " ", "N", "o", "v", "e",
      "m", "b", "e", "r", " ", "2", ",", " ", "2", "0", "2", "6">>

sSummary ==
    <<"S", "u", "m", "m", "a", "r", "y">>

sTotalInitial ==
    <<"T", "o", "t", "a", "l", " ", "E", "s", "t", "i", "m", "a", "t", "e", "d", " ", "I", "n",
      "i", "t", "i", "a", "l", " ", "C", "o", "s", "t", ":", " ">>

sTotalMonthly ==
    <<"T", "o", "t", "a", "l", " ", "E", "s", "t", "i", "m", "a", "t", "e", "d", " ", "M", "o",
      "n", "t", "h", "l", "y", " ", "C", "o", "s", "t", ":", " ">>

sOverBudget ==
    <<"O", "v", "e", "r", " ", "B", "u", "d", "g", "e", "t", ":", " ", "$">>

sReason ==
    <<"R", "e", "a", "s", "o", "n", ":", " ">>

sNotes ==
    <<"N", "o", "t", "e", "s", ":">>

sRecommendations ==
    <<"R", "e", "c", "o", "m", "m", "e", "n", "d", "a", "t", "i", "o", "n", "s">>

sService ==
    <<"S", "e", "r", "v", "i", "c", "e">>

sInitialCost ==
    <<"I", "n", "i", "t", "i", "a", "l", " ", "C", "o", "s", "t", ":", " ">>

sMonthlyCost ==
    <<"M", "o", "n", "t", "h", "l", "y", " ", "C", "o", "s", "t", ":", " ">>

sSteps ==
    <<"S", "t", "e", "p", "s", ":">>

sRecommendationsLabel ==
    <<"R", "e", "c", "o", "m", "m", "e", "n", "d", "a", "t", "i", "o", "n", "s", ":">>

sSources ==
    <<"S", "o", "u", "r", "c", "e", "s", ":">>

sRawHeading ==
    <<"R", "e", "c", "o", "m", "m", "e", "n", "d", "a", "t", "i", "o", "n", "s", " ", "(", "R",
      "a", "w", ")">>

sNoneHeading ==
    <<"N", "o", " ", "r", "e", "c", "o", "m", "m", "e", "n", "d", "a", "t", "i", "o", "n", "s",
      " ", "f", "o", "u", "n", "d">>

sPlaceholder ==
    <<"T", "h", "e", " ", "r", "e", "q", "u", "e", "s", "t", " ", "b", "o", "d", "y", " ", "d",
      "i", "d", " ", "n", "o", "t", " ", "c", "o", "n", "t", "a", "i", "n", " ", "p", "a", "r",
      "s", "e", "a", "b", "l", "e", " ", "r", "e", "c", "o", "m", "m", "e", "n", "d", "a", "t",
      "i", "o", "n", "s", ".", " ", "S", "e", "n", "d", " ", "e", "i", "t", "h", "e", "r", ":",
      " ", "(", "1", ")", " ", "a", " ", "f", "u", "l", "l", " ", "o", "b", "j", "e", "c", "t",
      " ", "w", "i", "t", "h", " ", "a", " ", Backquote, "r", "e", "c", "o", "m", "m", "e", "n",
      "d", "a", "t", "i", "o", "n", "s", Backquote, " ", "a", "r", "r", "a", "y", ",", " ", "(",
      "2", ")", " ", "a", " ", "r", "e", "c", "o", "m", "m", "e", "n", "d", "a", "t", "i", "o",
      "n", "s", " ", "a", "r", "r", "a", "y", ",", " ", "o", "r", " ", "(", "3", ")", " ", "a",
      " ", "s", "t", "r", "i", "n", "g", " ", "c", "o", "n", "t", "a", "i", "n", "i", "n", "g",
      " ", "J", "S", "O", "N", " ", "(", "o", "p", "t", "i", "o", "n", "a", "l", "l", "y", " ",
      "i", "n", "s", "i", "d", "e", " ", Backquote, Backquote, Backquote, "j", "s", "o", "n", " ",
      "c", "o", "d", "e", " ", "f", "e", "n", "c", "e", "s", Backquote, Backquote, Backquote, ")">>

sDivider ==
    <<"_", "_", "_", "_", "_", "_", "_", "_", "_", "_", "_", "_", "_", "_", "_", "_", "_", "_",
      "_", "_", "_", "_", "_", "_", "_", "_", "_", "_", "_", "_", "_", "_", "_", "_", "_", "_",
      "_", "_", "_", "_", "_", "_", "_", "_", "_", "_", "_", "_", "_", "_", "_", "_", "_", "_",
      "_", "_", "_", "_", "_", "_", "_", "_">>

sObject ==
    <<"[", "o", "b", "j", "e", "c", "t", " ", "O", "b", "j", "e", "c", "t", "]">>

\* String(x), and the conversion of a template literal
RECURSIVE StringOf(_), JoinStrings(_, _)
StringOf(x) ==
    CASE x.t = "str" -> x.v
      [] x.t = "num" -> NumStr(x.v)
      [] x.t = "bool" -> IF x.v THEN <<"t", "r", "u", "e">> ELSE <<"f", "a", "l", "s", "e">>
      [] x.t = "null" -> <<"n", "u", "l", "l">>
      [] x.t = "undefined" -> <<"u", "n", "d", "e", "f", "i", "n", "e", "d">>
      [] x.t = "arr" -> IF Len(x.v) = 0 THEN <<>> ELSE JoinStrings(x.v, 1)
      [] x.t = "obj" -> sObject

\* Array.prototype.join(","): null and undefined elements give the empty string
JoinStrings(a, i) ==
    (IF a[i].t \in {"null", "undefined"} THEN <<>> ELSE StringOf(a[i]))
        \o (IF i = Len(a) THEN <<>> ELSE <<",">> \o JoinStrings(a, i + 1))

\* the truthiness of a value
Truthy(x) ==
    CASE x.t \in {"null", "undefined"} -> FALSE
      [] x.t = "bool" -> x.v
      [] x.t = "num" -> x.v # 0
      [] x.t = "str" -> Len(x.v) > 0
      [] OTHER -> TRUE

\* val.replace(/[$,]/g, "")
StripMoney(s) == SelectSeq(s, LAMBDA c : c \notin {"$", ","})

\* Number(cleaned) when it is finite, undefined when it is NaN: the empty
\* string is 0 and a run of digits is its value; the texts of the model hold
\* no sign, fraction, exponent or radix prefix
FiniteNumber(s) ==
    IF Len(s) = 0 THEN JNum(0)
    ELSE IF \A k \in 1..Len(s) : IsDigit(s[k]) THEN ParseDigits(s, 1, 0).v
    ELSE Undefined

coerceNumber(val) ==
    IF val.t = "num" THEN val
    ELSE IF val.t = "str" THEN FiniteNumber(trim(StripMoney(val.v)))
    ELSE Undefined

RECURSIVE toLocaleString(_)
\* n.toLocaleString() of a natural number: groups of three digits separated by commas
toLocaleString(n) ==
    IF n < 1000 THEN NumStr(n)
    ELSE toLocaleString(n \div 1000)
             \o <<",", Digits[((n \div 100) % 10) + 1], Digits[((n \div 10) % 10) + 1], Digits[(n % 10) + 1]>>

\* the text of a known amount
MoneyText(n) == IF n = Undefined THEN Undefined ELSE JStr(<<"$">> \o toLocaleString(n.v))

formatMoney(val) == MoneyText(coerceNumber(val))

\* a || b || c
FirstTruthy(a, b, c) == IF Truthy(a) THEN a ELSE IF Truthy(b) THEN b ELSE c

----------------------------------------------------------------------------
(* PDF route: the page and the cursor *)

PAGE_W == 612
PAGE_H == 792
margin == 50
bottomMargin == 50
contentWidth == PAGE_W - 2 * margin

\* a length in points as it is kept here, in hundredths of a point
Pt(n) == n * 100

\* let y = PAGE_H - 50
TopY == Pt(PAGE_H - 50)

\* size * lineGap with the default lineGap of 1.2
lineHeight(size) == size * 120

helveticaFont == "Helvetica"
helveticaBoldFont == "Helvetica-Bold"

\* the advance width of a glyph in thousandths of the font size: the
\* Helvetica metrics of the characters the texts of the model are made of
GlyphWidth(font, c) ==
    CASE c \in {" ", ".", ",", ":"} -> IF font = helveticaBoldFont /\ c = ":" THEN 333 ELSE 278
      [] c \in {"i", "l"} -> IF font = helveticaBoldFont THEN 278 ELSE 222
      [] c = "W" -> 944
      [] c = "_" -> 556
      [] OTHER -> IF font = helveticaBoldFont THEN 611 ELSE 556

RECURSIVE GlyphWidths(_, _, _, _)
\* the widths of s[a..b] added up, by halves
GlyphWidths(font, s, a, b) ==
    IF a > b THEN 0
    ELSE IF a = b THEN GlyphWidth(font, s[a])
    ELSE GlyphWidths(font, s, a, (a + b) \div 2) + GlyphWidths(font, s, ((a + b) \div 2) + 1, b)

\* font.widthOfTextAtSize(t, size) > maxWidth
TooWide(t, font, size, maxWidth) == GlyphWidths(font, t, 1, Len(t)) * size > maxWidth * 1000

\* the cursor of a render: y, the pages added so far (the last one is the
\* current page) and the page.drawText calls made so far
newPage(c) == [c EXCEPT !.pages = Append(@, <<PAGE_W, PAGE_H>>), !.y = TopY]

\* ensureSpace that compares the cursor alone with the bottom margin
ensureSpaceIgnoringHeight(c, neededHeight) == IF c.y < Pt(bottomMargin) THEN newPage(c) ELSE c

ensureSpace(c, neededHeight) == IF c.y - neededHeight < Pt(bottomMargin) THEN newPage(c) ELSE c

\* page.drawText(text, { x, y, size, font }) on the current page; the record
\* also keeps the height reserved for the draw and the cursor before the reservation
drawText(c, txt, x, size, font, neededHeight, from) ==
    [c EXCEPT !.drawn = Append(@, [text |-> txt, x |-> x, y |-> c.y, size |-> size, font |-> font,
                                   page |-> Len(c.pages), needed |-> neededHeight,
                                   fromY |-> from.y, fromPage |-> Len(from.pages)])]

\* ensureSpace(neededHeight); page.drawText(text, ...)
drawAfterEnsure(c, neededHeight, txt, x, size, font) ==
    drawText(ensureSpace(c, neededHeight), txt, x, size, font, neededHeight, c)

\* y -= by
MoveDown(c, by) == [c EXCEPT !.y = @ - by]

----------------------------------------------------------------------------
(* PDF route: drawWrappedText *)

\* the indices of s that satisfy Test, in increasing order
IndicesOf(s, Test(_)) == SelectSeq([k \in 1..Len(s) |-> k], Test)

\* the pieces of s between the newlines at the indices nl: each ends before
\* the next newline, and before the carriage return that precedes that newline
PiecesAt(s, nl) ==
    [n \in 1..(Len(nl) + 1) |->
        Sub(s,
            IF n = 1 THEN 1 ELSE nl[n - 1] + 1,
            IF n = Len(nl) + 1 THEN Len(s)
            ELSE IF nl[n] > 1 /\ s[nl[n] - 1] = "\r" THEN nl[n] - 2
            ELSE nl[n] - 1)]

\* String(text).split(/\r?\n/)
SplitLines(s) == PiecesAt(s, IndicesOf(s, LAMBDA k : s[k] = "\n"))

\* the words that start at the indices starts and end at the indices ends
WordsAt(s, starts, ends) == [n \in 1..Len(starts) |-> Sub(s, starts[n], ends[n])]

\* paragraph.split(/\s+/) of a trimmed, non-empty paragraph
SplitWords(s) ==
    WordsAt(s,
            IndicesOf(s, LAMBDA k : s[k] \notin JsWS /\ (k = 1 \/ s[k - 1] \in JsWS)),
            IndicesOf(s, LAMBDA k : s[k] \notin JsWS /\ (k = Len(s) \/ s[k + 1] \in JsWS)))

\* line ? line + " " + word : word
TestLine(line, word) == IF Len(line) > 0 THEN line \o <<" ">> \o word ELSE word

RECURSIVE WrapFromMeasuringLine(_, _, _, _, _, _)
\* WrapFrom that measures the current line instead of the line with the next word
WrapFromMeasuringLine(words, k, line, font, size, maxWidth) ==
    IF k > Len(words) THEN (IF Len(line) > 0 THEN <<line>> ELSE <<>>)
    ELSE IF TooWide(line, font, size, maxWidth) /\ Len(line) > 0
        THEN <<line>> \o WrapFromMeasuringLine(words, k + 1, words[k], font, size, maxWidth)
    ELSE WrapFromMeasuringLine(words, k + 1, TestLine(line, words[k]), font, size, maxWidth)

RECURSIVE WrapFrom(_, _, _, _, _, _)
\* the lines the loop over the words draws for words[k..] when the current line is line
WrapFrom(words, k, line, font, size, maxWidth) ==
    IF k > Len(words) THEN (IF Len(line) > 0 THEN <<line>> ELSE <<>>)
    ELSE IF TooWide(TestLine(line, words[k]), font, size, maxWidth) /\ Len(line) > 0
        THEN <<line>> \o WrapFrom(words, k + 1, words[k], font, size, maxWidth)
    ELSE WrapFrom(words, k + 1, TestLine(line, words[k]), font, size, maxWidth)

RECURSIVE DrawLinesLosingLineAtBreak(_, _, _, _, _, _)
\* DrawLines that starts the new page but does not draw the line that caused it
DrawLinesLosingLineAtBreak(c, lines, k, x, size, font) ==
    IF k > Len(lines) THEN c
    ELSE IF ensureSpace(c, lineHeight(size)) # c
        THEN DrawLinesLosingLineAtBreak(MoveDown(ensureSpace(c, lineHeight(size)), lineHeight(size)),
                                        lines, k + 1, x, size, font)
    ELSE DrawLinesLosingLineAtBreak(
             MoveDown(drawAfterEnsure(c, lineHeight(size), lines[k], x, size, font), lineHeight(size)),
             lines, k + 1, x, size, font)

RECURSIVE DrawLines(_, _, _, _, _, _)
\* ensureSpace(lineHeight); page.drawText(line, ...); y -= lineHeight for lines[k..]
DrawLines(c, lines, k, x, size, font) ==
    IF k > Len(lines) THEN c
    ELSE DrawLines(MoveDown(drawAfterEnsure(c, lineHeight(size), lines[k], x, size, font), lineHeight(size)),
                   lines, k + 1, x, size, font)

\* the paragraph spacing: lineHeight * 0.4, after every paragraph but the last
ParagraphSpacing(c, last, size) ==
    IF last THEN c ELSE MoveDown(ensureSpace(c, size * 48), size * 48)

\* one round of the loop over the paragraphs; a blank paragraph moves the
\* cursor one line down and skips the spacing
drawParagraph(c, paragraph, last, o) ==
    IF Len(paragraph) = 0 THEN MoveDown(ensureSpace(c, lineHeight(o.size)), lineHeight(o.size))
    ELSE ParagraphSpacing(
             DrawLines(c, WrapFrom(SplitWords(paragraph), 1, <<>>, o.font, o.size, o.maxWidth),
                       1, o.x, o.size, o.font),
             last, o.size)

----------------------------------------------------------------------------
(* PDF route: the calls of a render, in order *)

\* a page.drawText call behind ensureSpace(needed), followed by y -= advance
TextCall(txt, x, size, font, needed, advance) ==
    [op |-> "text", text |-> txt, x |-> x, size |-> size, font |-> font,
     needed |-> needed, advance |-> advance]

\* y -= by
MoveCall(by) == [op |-> "move", by |-> by]

drawWrappedText(txt, x, size, font, maxWidth) ==
    [op |-> "wrapped", paragraphs |-> SplitLines(txt), x |-> x, size |-> size, font |-> font,
     maxWidth |-> maxWidth]

drawHeading(txt, size) == TextCall(txt, margin, size, helveticaBoldFont, size * 160, size * 160)

drawDivider == TextCall(sDivider, margin, 10, helveticaFont, Pt(12), Pt(18))

\* the line of the generation date
DateCall == TextCall(sGenerated, margin, 10, helveticaFont, Pt(18), Pt(26))

hasSummary(summary) ==
    \/ summary.totalEstimatedInitialCost # Undefined
    \/ summary.totalEstimatedMonthlyCost # Undefined
    \/ Truthy(summary.notes)
    \/ summary.totalEstimatedCostOverBudget # Undefined
    \/ Truthy(summary.overBudgetReason)

\* if (money) drawWrappedText({ text: label + money, ... })
MoneyLine(label, money, size) ==
    IF money = Undefined THEN <<>>
    ELSE <<drawWrappedText(label \o money.v, margin, size, helveticaFont, contentWidth)>>

\* const over = coerceNumber(...); if (over !== undefined) ...
OverBudgetLine(over) ==
    IF over = Undefined THEN <<>>
    ELSE <<drawWrappedText(sOverBudget \o toLocaleString(over.v), margin, 12, helveticaFont, contentWidth)>>

\* if (value) { label line; text line }
LabelledText(label, value, size) ==
    IF ~Truthy(value) THEN <<>>
    ELSE <<drawWrappedText(label, margin, 12, helveticaBoldFont, contentWidth),
           drawWrappedText(StringOf(value), margin, size, helveticaFont, contentWidth)>>

SummaryCalls(summary) ==
    IF ~hasSummary(summary) THEN <<>>
    ELSE <<drawHeading(sSummary, 18)>>
         \o MoneyLine(sTotalInitial, formatMoney(summary.totalEstimatedInitialCost), 12)
         \o MoneyLine(sTotalMonthly, formatMoney(summary.totalEstimatedMonthlyCost), 12)
         \o OverBudgetLine(coerceNumber(summary.totalEstimatedCostOverBudget))
         \o (IF Truthy(summary.overBudgetReason)
             THEN <<drawWrappedText(sReason \o StringOf(summary.overBudgetReason), margin, 11,
                                    helveticaFont, contentWidth)>>
             ELSE <<>>)
         \o (IF Truthy(summary.notes) THEN <<MoveCall(Pt(6))>> ELSE <<>>)
         \o LabelledText(sNotes, summary.notes, 11)
         \o <<MoveCall(Pt(8)), drawDivider>>

kServiceId == <<"s", "e", "r", "v", "i", "c", "e", "I", "d">>
kEstimatedInitialCost == <<"e", "s", "t", "i", "m", "a", "t", "e", "d", "I", "n", "i", "t", "i", "a", "l", "C", "o", "s", "t">>
kEstimatedMonthlyCost == <<"e", "s", "t", "i", "m", "a", "t", "e", "d", "M", "o", "n", "t", "h", "l", "y", "C", "o", "s", "t">>
kSteps == <<"s", "t", "e", "p", "s">>
kSpecificRecommendations == <<"s", "p", "e", "c", "i", "f", "i", "c", "R", "e", "c", "o", "m", "m", "e", "n", "d", "a", "t", "i", "o", "n", "s">>
kSources == <<"s", "o", "u", "r", "c", "e", "s">>

\* a list heading and one indented line per element: the steps numbered, the sources as they are
ListCalls(label, list, numbered, size) ==
    IF ~(IsArray(list) /\ Len(list.v) > 0) THEN <<>>
    ELSE <<drawWrappedText(label, margin, 12, helveticaBoldFont, contentWidth)>>
         \o [n \in 1..Len(list.v) |->
                drawWrappedText((IF numbered THEN NumStr(n) \o <<".", " ">> ELSE <<>>) \o StringOf(list.v[n]),
                                margin + 12, size, helveticaFont, contentWidth - 12)]

\* the calls for recommendations[i], rec being recommendations[i] ?? {}
ItemCalls(rec, i) ==
    <<TextCall(NumStr(i) \o <<".", " ">>
                   \o StringOf(FirstTruthy(Get(rec, kServiceName), Get(rec, kServiceId), JStr(sService))),
               margin, 14, helveticaBoldFont, Pt(26), Pt(20))>>
    \o MoneyLine(sInitialCost, formatMoney(Get(rec, kEstimatedInitialCost)), 11)
    \o MoneyLine(sMonthlyCost, formatMoney(Get(rec, kEstimatedMonthlyCost)), 11)
    \o <<MoveCall(Pt(4))>>
    \o ListCalls(sSteps, Get(rec, kSteps), TRUE, 10)
    \o (IF IsArray(Get(rec, kSteps)) /\ Len(Get(rec, kSteps).v) > 0 THEN <<MoveCall(Pt(4))>> ELSE <<>>)
    \o LabelledText(sRecommendationsLabel, Get(rec, kSpecificRecommendations), 10)
    \o (IF Truthy(Get(rec, kSpecificRecommendations)) THEN <<MoveCall(Pt(4))>> ELSE <<>>)
    \o ListCalls(sSources, Get(rec, kSources), FALSE, 9)
    \o <<MoveCall(Pt(10)), drawDivider>>

RECURSIVE ItemsCalls(_, _)
\* the loop over the recommendations from index i on
ItemsCalls(recommendations, i) ==
    IF i > Len(recommendations) THEN <<>>
    ELSE ItemCalls(IF recommendations[i].t \in {"null", "undefined"} THEN JObj(<<>>) ELSE recommendations[i], i)
             \o ItemsCalls(recommendations, i + 1)

\* the else branch: the raw text, or the message about the accepted shapes
FallbackCalls(v) ==
    IF v.section = "raw"
    THEN <<drawHeading(sRawHeading, 18), drawWrappedText(v.fallback, margin, 10, helveticaFont, contentWidth)>>
    ELSE <<drawHeading(sNoneHeading, 18), drawWrappedText(sPlaceholder, margin, 10, helveticaFont, contentWidth)>>

\* every drawing call of POST for the view v, in the order the code makes them
RenderCalls(v) ==
    <<drawHeading(sTitle, 24), DateCall>>
    \o SummaryCalls(v.summary)
    \o (IF Len(v.recommendations) > 0
        THEN <<drawHeading(sRecommendations, 18)>> \o ItemsCalls(v.recommendations, 1)
        ELSE FallbackCalls(v))

----------------------------------------------------------------------------
(* Inputs *)

\* longest string of the exhaustive family of short texts
MaxLen == 3
\* largest number of times a payload is encoded as a JSON string literal
MaxEncode == 6

Alphabet == {"\"", "'", "[", "]", "1", " "}
ShortTexts == UNION {[1..n -> Alphabet] : n \in 0..MaxLen}

Item == JObj(<< <<kServiceName, JStr(<<"a">>)>> >>)
FencedNote == Fence \o <<"1">> \o Fence

\* RecommendationDocuments: objects with a recommendations sequence and summary fields
RecDocs ==
    { JObj(<< <<kRecommendations, JArr(<<>>)>> >>),
      JObj(<< <<kRecommendations, JArr(<<Item>>)>> >>),
      JObj(<< <<kRecommendations, JArr(<<Item>>)>>, <<kNotes, JStr(<<"n", " ", "\"", "q", "\"">>)>>,
              <<kTotalEstimatedInitialCost, JNum(12)>>, <<kTotalEstimatedCostOverBudget, JNull>> >>),
      JObj(<< <<kRecommendations, JArr(<<>>)>>, <<kNotes, JStr(FencedNote)>> >>),
      JObj(<< <<kNotes, JStr(Fence)>> >>),
      JObj(<< <<kRecommendations, JArr(<<Item>>)>>, <<kOverBudgetReason, JStr(<<"a", "\n", "b">>)>> >>) }

\* JSON documents a reply can carry
Docs ==
    RecDocs \cup
    { JArr(<<>>), JArr(<<Item>>), JNum(1), JNull, JBool(TRUE), JStr(<<"a">>),
      JObj(<<>>),
      JObj(<< <<kRecommendations, JStr(<<"s">>)>>, <<kNotes, JStr(<<"n">>)>> >>),
      JObj(<< <<kRecommendations, JObj(<< <<kText, JStr(<<"t">>)>> >>)>> >>) }

Prose == {<<"H", "i", " ">>, <<"S", "e", "e", ":", "\n">>}

FencedJson(s) == Fence \o TagJson \o <<"\n">> \o s \o <<"\n">> \o Fence
FencedBare(s) == Fence \o s \o Fence
FencedForms(s) == {FencedJson(s), FencedBare(s), Fence \o <<"J", "S", "O", "N", " ">> \o s \o <<" ">> \o Fence}

RECURSIVE Encode(_, _)
\* s encoded k times as a JSON string literal
Encode(s, k) == IF k = 0 THEN s ELSE Encode(Quote(s), k - 1)

\* number of steps of the long recommendation item
MaxSteps == 50
\* blank lines ahead of the wide paragraph of the long raw text
BlankLines == 48
\* letters of each word of the wide paragraph
WideLen == 28

WideWord == [k \in 1..WideLen |-> "W"]

\* n steps, each too long for one line: "do k" and two wide words
StepTexts(n) ==
    [k \in 1..n |-> JStr(<<"d", "o", " ">> \o NumStr(k) \o <<" ">> \o WideWord \o <<" ">> \o WideWord)]

LongItem ==
    JObj(<< <<kServiceId, JStr(<<"n", "1">>)>>,
            <<kEstimatedInitialCost, JNum(1200)>>,
            <<kEstimatedMonthlyCost, JStr(<<"$", "1", ",", "0", "0", "0">>)>>,
            <<kSteps, JArr(StepTexts(MaxSteps))>>,
            <<kSpecificRecommendations, JStr(<<"u", "s", "e", " ", "i", "t">>)>>,
            <<kSources, JArr(<<JStr(<<"x", ".", "i", "o">>), JNum(7)>>)>> >>)

FullDoc ==
    JObj(<< <<kRecommendations, JArr(<<Item, LongItem>>)>>,
            <<kTotalEstimatedInitialCost, JNum(1200)>>,
            <<kTotalEstimatedMonthlyCost, JStr(<<"a", "b", "c">>)>>,
            <<kNotes, JStr(<<"a", "\n", "\n", "b", " ", "c">>)>>,
            <<kTotalEstimatedCostOverBudget, JNum(300)>>,
            <<kOverBudgetReason, JStr(<<"r">>)>> >>)

\* blank lines down to the foot of the first page, then one paragraph of three words that fit one to a line
LongRaw == [k \in 1..BlankLines |-> "\n"] \o WideWord \o <<" ">> \o WideWord \o <<" ">> \o WideWord

\* letters of the word that is wider than a line
OverLen == 56

OverWord == [k \in 1..OverLen |-> "W"]

\* a paragraph with a word wider than the content width between two pairs of short words
WrapRaw == <<"a", "a", " ", "b", "b", " ">> \o OverWord \o <<" ", "c", "c", " ", " ", "d", "d">>

\* values a money field can hold: numbers, numeric and non-numeric strings, the empty string, null, an object
MoneyValues ==
    {JNum(0), JNum(1200), JStr(<<"$", "1", ",", "0", "0", "0">>), JStr(<<"1", "2">>), JStr(<<" ", "7", " ">>),
     JStr(<<"a", "b", "c">>), JStr(<<>>), JNull, JObj(<<>>), JBool(TRUE)}

\* a document with one item whose five money fields all hold m
MoneyDoc(m) ==
    JObj(<< <<kRecommendations,
              JArr(<<JObj(<< <<kServiceName, JStr(<<"a">>)>>, <<kEstimatedInitialCost, m>>,
                             <<kEstimatedMonthlyCost, m>> >>)>>)>>,
            <<kTotalEstimatedInitialCost, m>>, <<kTotalEstimatedMonthlyCost, m>>,
            <<kTotalEstimatedCostOverBudget, m>> >>)

\* a document whose summary fields are null or absent
NullSummaryDoc ==
    JObj(<< <<kRecommendations, JArr(<<Item>>)>>, <<kTotalEstimatedInitialCost, JNull>>,
            <<kTotalEstimatedCostOverBudget, JNull>>, <<kNotes, JNull>> >>)

\* items without their optional fields
SparseItems ==
    JArr(<<JObj(<< <<kSteps, JArr(<<JStr(<<"g", "o">>)>>)>> >>),
           JObj(<< <<kServiceId, JStr(<<"n", "2">>)>> >>),
           JObj(<<>>)>>)

\* fields of unexpected types, and items that are no objects
MalformedDocs ==
    { JObj(<< <<kRecommendations,
                JArr(<<JObj(<< <<kServiceName, JStr(<<"a">>)>>, <<kEstimatedInitialCost, JObj(<<>>)>>,
                               <<kSteps, JStr(<<"o", "n", "e">>)>>, <<kSources, JStr(<<"x", ".", "i", "o">>)>> >>)>>)>> >>),
      JArr(<<JObj(<< <<kServiceName, JObj(<< <<<<"a">>, JNum(1)>> >>)>>, <<kServiceId, JStr(<<"n", "3">>)>> >>)>>),
      JArr(<<JObj(<< <<kServiceName, JStr(<<"a">>)>>, <<kSpecificRecommendations, JObj(<<>>)>> >>)>>),
      JObj(<< <<kRecommendations, JArr(<<Item>>)>>, <<kNotes, JObj(<<>>)>>, <<kOverBudgetReason, JObj(<<>>)>> >>),
      JArr(<<Item, JNull, JNum(5), JStr(<<"s">>)>>) }

Payloads == {<<"1">>, <<"[", "]">>, <<"x">>}

Texts ==
    ShortTexts
    \cup {Stringify(d) : d \in Docs}
    \cup {StringifyIndent(d, 2, 0) : d \in RecDocs}
    \cup UNION {FencedForms(Stringify(d)) : d \in Docs}
    \cup {Quote(f) : f \in UNION {FencedForms(Stringify(d)) : d \in Docs}}
    \cup {p \o Stringify(d) : p \in Prose, d \in Docs}
    \cup {p \o FencedJson(Stringify(d)) \o <<"\n", "o", "k">> : p \in Prose, d \in RecDocs}
    \cup {Encode(w, k) : w \in Payloads, k \in 1..MaxEncode}
    \cup {<<"h", "e", "l", "l", "o">>, <<" ", "n", "o", "\n">>, Fence \o TagJson \o <<"\n", "{">>,
          <<"'", "[", "1", "]", "'">>, Fence \o <<" ">> \o Fence}
    \cup {LongRaw, WrapRaw}

Usages == {Undefined, JObj(<< <<<<"c">>, JNum(3)>> >>)}

SampleTexts == {Stringify(JArr(<<Item>>)), <<"h", "e", "l", "l", "o">>, FencedJson(Stringify(JArr(<<>>))), <<>>}

\* JSON-compatible request bodies of the PDF route
Bodies ==
    {JStr(t) : t \in Texts}
    \cup Docs
    \cup {JNum(0), JBool(FALSE)}
    \cup {JObj(<< <<kRecommendations, JStr(t)>>, <<kNotes, JStr(<<"n">>)>> >>) : t \in SampleTexts}
    \cup {JObj(<< <<kRecommendations, JObj(<< <<kText, JStr(t)>>, <<kRaw, JBool(TRUE)>> >>)>> >>) : t \in SampleTexts}
    \cup {JObj(<< <<kText, JStr(t)>>, <<kRaw, JBool(TRUE)>> >>) : t \in SampleTexts}
    \cup {JObj(<< <<kRecommendations, d>> >>) : d \in Docs}
    \cup {JObj(<< <<kText, JNum(1)>> >>), JObj(<< <<<<"a">>, JStr(FencedNote)>> >>)}
    \cup {FullDoc, JArr(<<LongItem>>)}
    \cup {MoneyDoc(m) : m \in MoneyValues}
    \cup {NullSummaryDoc, SparseItems}
    \cup MalformedDocs

\* answers.location_country, answers.location_state, answers.location_city
answers ==
    [location_country |-> JStr(<<"U", "S">>), location_state |-> JStr(<<"T", "X">>),
     location_city |-> JStr(<<"A">>)]

----------------------------------------------------------------------------
(* PDF route: the response *)

\* no response has been returned yet
NoResponse == [status |-> 0, contentType |-> "", disposition |-> "", pdf |-> <<>>, json |-> <<>>]

\* the saved document: its pages and what was drawn on them
SavedBytes(c) == <<[pages |-> c.pages, drawn |-> c.drawn]>>

\* new Response(arrayBuffer, { headers }) with the bytes of pdfDoc.save()
PdfResponse(c) ==
    [status |-> 200, contentType |-> "application/pdf",
     disposition |-> "attachment; filename=\"recommendations.pdf\"",
     pdf |-> SavedBytes(c), json |-> <<>>]

\* the catch block's answer that also sends what was drawn before the failure
ErrorResponseWithDrawn(c, detail) ==
    [status |-> 500, contentType |-> "application/json", disposition |-> "",
     pdf |-> SavedBytes(c),
     json |-> <<[error |-> "Failed to generate PDF", details |-> detail]>>]

\* Response.json({ error, details }, { status: 500 })
ErrorResponse(c, detail) ==
    [status |-> 500, contentType |-> "application/json", disposition |-> "",
     pdf |-> <<>>,
     json |-> <<[error |-> "Failed to generate PDF", details |-> detail]>>]

\* error.message of what a call inside the try block raised
ErrorDetails == {"Unexpected end of JSON input", "WinAnsi cannot encode"}

----------------------------------------------------------------------------
(* The request flow *)

Init ==
    /\ \/ /\ mode = "pipeline" /\ pc = "model"
          /\ text \in Texts /\ usage \in Usages
          /\ body = Undefined
       \/ /\ mode = "direct" /\ pc = "request"
          /\ text = <<>> /\ usage = Undefined
          /\ body \in Bodies
    /\ parsed = Undefined /\ results = Undefined
    /\ norm = [doc |-> Undefined, rawText |-> Undefined]
    /\ depth = 0
    /\ view = [recommendations |-> <<>>, summary |-> EmptySummary, section |-> "none", fallback |-> <<>>]
    /\ calls = <<>> /\ y = 0 /\ pages = <<>> /\ drawn = <<>>
    /\ response = NoResponse

\* recommendations route POST, and the form's onSubmit storing its answer
RecommendationsPOST ==
    /\ pc = "model"
    /\ parsed' = parseModelJson(text)
    /\ depth' = parseModelJsonRun(text, 0).d
    /\ results' = RecommendationsAnswer(text, usage)
    /\ pc' = "results"
    /\ UNCHANGED <<mode, text, usage, body, norm, view>>
    /\ UNCHANGED renderVars
    /\ UNCHANGED response

\* the form posts its results to the PDF route
handleGeneratePdf ==
    /\ pc = "results"
    /\ results # Undefined /\ results # JNull
    /\ body' = JsonTrip(JObj(<< <<kRecommendations, results>>,
                                <<kLocationCountry, answers.location_country>>,
                                <<kLocationState, answers.location_state>>,
                                <<kLocationCity, answers.location_city>> >>))
    /\ pc' = "request"
    /\ UNCHANGED <<mode, text, usage, parsed, results, norm, depth, view>>
    /\ UNCHANGED renderVars
    /\ UNCHANGED response

\* PDF route POST: const { doc, rawText } = normalizeInput(body)
PdfNormalize ==
    /\ pc = "request"
    /\ norm' = normalizeInput(body)
    /\ depth' = IF IsString(body) THEN parseJsonFromStringRun(body.v, 0).d ELSE depth
    /\ pc' = "normalized"
    /\ UNCHANGED <<mode, text, usage, parsed, results, body, view>>
    /\ UNCHANGED renderVars
    /\ UNCHANGED response

\* PDF route POST: the structured view and the section to draw
PdfBuildView ==
    /\ pc = "normalized"
    /\ norm # Thrown
    /\ view' = BuildView(body, norm)
    /\ pc' = "viewed"
    /\ UNCHANGED <<mode, text, usage, parsed, results, body, norm, depth>>
    /\ UNCHANGED renderVars
    /\ UNCHANGED response

\* PDF route POST: the document, its first page and the cursor at the top of it
PdfCreate ==
    /\ pc = "viewed"
    /\ calls' = RenderCalls(view)
    /\ pages' = <<<<PAGE_W, PAGE_H>>>>
    /\ y' = TopY
    /\ drawn' = <<>>
    /\ pc' = "drawing"
    /\ UNCHANGED normVars
    /\ UNCHANGED response

Cursor == [y |-> y, pages |-> pages, drawn |-> drawn]

MoveTo(c) == y' = c.y /\ pages' = c.pages /\ drawn' = c.drawn

\* drawHeading, drawDivider, the date line or an item title
DrawTextCall ==
    /\ pc = "drawing" /\ calls # <<>> /\ Head(calls).op = "text"
    /\ MoveTo(MoveDown(drawAfterEnsure(Cursor, Head(calls).needed, Head(calls).text, Head(calls).x,
                                       Head(calls).size, Head(calls).font),
                       Head(calls).advance))
    /\ calls' = Tail(calls)
    /\ UNCHANGED pc
    /\ UNCHANGED normVars
    /\ UNCHANGED response

\* drawWrappedText: one round of its loop over the paragraphs
DrawParagraph ==
    /\ pc = "drawing" /\ calls # <<>> /\ Head(calls).op = "wrapped"
    /\ MoveTo(drawParagraph(Cursor, trim(Head(Head(calls).paragraphs)),
                            Len(Head(calls).paragraphs) = 1, Head(calls)))
    /\ calls' = IF Len(Head(calls).paragraphs) = 1 THEN Tail(calls)
                ELSE <<[Head(calls) EXCEPT !.paragraphs = Tail(@)]>> \o Tail(calls)
    /\ UNCHANGED pc
    /\ UNCHANGED normVars
    /\ UNCHANGED response

\* y -= n between two draws
MoveCursor ==
    /\ pc = "drawing" /\ calls # <<>> /\ Head(calls).op = "move"
    /\ MoveTo(MoveDown(Cursor, Head(calls).by))
    /\ calls' = Tail(calls)
    /\ UNCHANGED pc
    /\ UNCHANGED normVars
    /\ UNCHANGED response

\* PDF route POST: pdfDoc.save() and the response
PdfSave ==
    /\ pc = "drawing" /\ calls = <<>>
    /\ response' = PdfResponse(Cursor)
    /\ pc' = "saved"
    /\ UNCHANGED normVars
    /\ UNCHANGED renderVars

\* PDF route POST: a call inside the try block raises (request.json(), the
\* document library while creating, drawing or saving) and the catch answers
PdfCatch ==
    /\ pc \in {"request", "normalized", "viewed", "drawing"}
    /\ \E detail \in ErrorDetails : response' = ErrorResponse(Cursor, detail)
    /\ pc' = "failed"
    /\ UNCHANGED normVars
    /\ UNCHANGED renderVars

Next ==
    \/ RecommendationsPOST
    \/ handleGeneratePdf
    \/ PdfNormalize
    \/ PdfBuildView
    \/ PdfCreate
    \/ DrawTextCall
    \/ DrawParagraph
    \/ MoveCursor
    \/ PdfSave
    \/ PdfCatch

Spec == Init /\ [][Next]_vars

----------------------------------------------------------------------------
(* Properties of the normalizers *)

\* normalizeInput has just returned; the recommendations route has just answered
Normalized == pc = "normalized"
Answered == pc = "results"

SummaryKeys ==
    {kTotalEstimatedInitialCost, kTotalEstimatedMonthlyCost, kNotes,
     kTotalEstimatedCostOverBudget, kOverBudgetReason}

\* none of the recovery forms yields a parseable value for S: the direct parse
\* (which is also the decoding of a quote-wrapped S), the fence and the leading bracket
FourFormsFail(S) ==
    /\ DirectForm(trim(S)) = Thrown
    /\ FencedForm(trim(S)) = Thrown
    /\ BracketForm(trim(S)) = Thrown

\* C1: after normalizeInput, for every JSON-compatible body, exactly one of
\* doc and rawText is present (not undefined): never both, never neither.
C1_ExactlyOne ==
    Normalized => (norm # Thrown /\ ((norm.doc # Undefined) # (norm.rawText # Undefined)))

C1_Witness ==
    /\ pc = "normalized" /\ body = JNum(0)
    /\ norm.doc = Undefined /\ norm.rawText = JStr(<<"0">>)

\* C2: for every RecommendationDocument D, whatever its string fields hold,
\* normalizeInput(JSON.stringify(D)) yields doc equal to D.
C2_RoundTrip ==
    Normalized => \A D \in RecDocs : body = JStr(Stringify(D)) => norm = DocResult(D)

\* C3: when no recovery step parses the model text, the text survives the
\* pipeline (route answer, form request, normalizeInput) and the PDF shows it
\* in the raw section, not the placeholder.
C3_RawSurvives ==
    (mode = "pipeline" /\ pc = "saved" /\ FourFormsFail(text) /\ Len(trim(text)) > 0)
        => /\ view.section = "raw" /\ view.fallback = text
           /\ \E k \in 1..Len(drawn) : drawn[k].text = sRawHeading

\* C4: when the model text parses to an object with a recommendations key,
\* the answer of the recommendations route has recommendations equal to that
\* key's value and still carries the sibling summary fields.
C4_SummaryPreserved ==
    (Answered /\ isPlainObject(parsed) /\ HasKey(parsed, kRecommendations)) =>
        /\ Get(results, kRecommendations) = Get(parsed, kRecommendations)
        /\ \A k \in SummaryKeys : Get(results, k) = Get(parsed, k)

\* C5: no normalizer operation raises: parseModelJson and parseJsonFromString
\* return a value or their failure marker, and normalizeInput returns a
\* result; a failed JSON.parse only moves on to the next step.
C5_NeverRaises ==
    /\ Answered => (parsed # Thrown /\ parsed # Undefined /\ results # Thrown)
    /\ Normalized => (norm # Thrown /\ (IsString(body) => parseJsonFromString(body.v) # Thrown))

C5_Witness ==
    /\ pc = "normalized" /\ IsString(body)
    /\ JSONparse(trim(body.v)) = Thrown
    /\ fenceRegexPdf(trim(body.v)).found
    /\ norm = RawResult(body.v)

\* C6: for every string S that none of the four recovery forms parses,
\* normalizeInput(S).rawText is S character for character (untrimmed,
\* undecoded), and the recommendations route passes S on as its text.
C6_RawTextVerbatim ==
    /\ (Normalized /\ IsString(body) /\ FourFormsFail(body.v)) => norm = RawResult(body.v)
    /\ (Answered /\ FourFormsFail(text)) =>
           Get(results, kRecommendations) = JObj(<< <<kText, JStr(text)>>, <<kRaw, JBool(TRUE)>> >>)

C6_Witness ==
    /\ pc = "normalized" /\ body = JStr(<<" ", "n", "o", "\n">>)
    /\ norm.rawText = JStr(<<" ", "n", "o", "\n">>)

\* C7: for every string made of prose (no fence, no bracket) followed by a
\* JSON object or array that runs to the end of the string, the
\* leading-bracket step yields that value as the document, in parseModelJson
\* and in parseJsonFromString as used by normalizeInput.
C7_LeadingBracket ==
    (Answered \/ Normalized) =>
        \A p \in Prose : \A D \in {d \in Docs : d.t \in {"obj", "arr"} /\ IndexFrom(Stringify(d), Fence, 1) = 0} :
            /\ (Answered /\ text = p \o Stringify(D)) => parsed = D
            /\ (Normalized /\ body = JStr(p \o Stringify(D))) => norm = DocResult(D)

\* C8 (as stated): for every JSON document D, the fenced text of D encoded
\* once more as a JSON string literal is normalized to D by both parsers.
C8_FencedEncodedAll ==
    (Answered \/ Normalized) =>
        \A D \in Docs : \A f \in FencedForms(Stringify(D)) :
            /\ (Answered /\ text = Quote(f)) => parsed = D
            /\ (Normalized /\ body = JStr(Quote(f))) => norm = DocResult(D)

\* C8 (amended): for every JSON document D whose JSON text contains no
\* triple-backquote sequence, the fenced text of D encoded once more as a
\* JSON string literal is normalized to D by both parsers.
C8_FencedEncoded ==
    (Answered \/ Normalized) =>
        \A D \in {d \in Docs : IndexFrom(Stringify(d), Fence, 1) = 0} :
            \A f \in FencedForms(Stringify(D)) :
                /\ (Answered /\ text = Quote(f)) => parsed = D
                /\ (Normalized /\ body = JStr(Quote(f))) => norm = DocResult(D)

C8_Witness ==
    /\ pc = "normalized"
    /\ body = JStr(Quote(FencedJson(Stringify(JObj(<< <<kRecommendations, JArr(<<>>)>> >>)))))
    /\ norm.doc = JObj(<< <<kRecommendations, JArr(<<>>)>> >>)
    /\ depth = 1

\* C9: the double-encoding recursion never goes deeper than 5 levels; a
\* string encoded more often falls back to rawText.
C9_DepthCapped ==
    /\ (Answered \/ Normalized) => depth <= 5
    /\ Normalized =>
           \A w \in Payloads : \A k \in 6..MaxEncode :
               body = JStr(Encode(w, k)) => norm = RawResult(body.v)

----------------------------------------------------------------------------
(* Properties of the renderer *)

\* C10: every page is 612x792, and every line, heading and divider is drawn
\* at a cursor y with y minus the height reserved for it at or above the
\* bottom margin 50: when the space left above the margin was smaller than
\* that height the draw is on a new page at y = 742, otherwise it is where
\* the cursor stood.
C10_PageBreakRule ==
    /\ \A p \in 1..Len(pages) : pages[p] = <<612, 792>>
    /\ \A k \in 1..Len(drawn) :
           /\ drawn[k].y - drawn[k].needed >= Pt(50)
           /\ IF drawn[k].fromY - drawn[k].needed < Pt(50)
              THEN drawn[k].page = drawn[k].fromPage + 1 /\ drawn[k].y = Pt(742)
              ELSE drawn[k].page = drawn[k].fromPage /\ drawn[k].y = drawn[k].fromY

\* a paragraph whose first line ends the first page and whose second line starts the second
C10_Witness ==
    /\ pc = "saved" /\ body = JStr(LongRaw)
    /\ \E k \in 1..(Len(drawn) - 1) :
           /\ drawn[k].text = WideWord /\ drawn[k + 1].text = WideWord
           /\ drawn[k].page = 1 /\ drawn[k + 1].page = 2
           /\ drawn[k + 1].y = Pt(742)

----------------------------------------------------------------------------
(* Properties of the response *)

\* C17: the PDF route answers once and all-or-nothing: no response before the
\* handler ends and nothing happens after it; the answer is either the
\* saved PDF of the complete render (application/pdf, attachment
\* recommendations.pdf) or a status-500 error with an error kind and a
\* detail string that carries no part of the PDF.
C17_AllOrNothing ==
    /\ (response = NoResponse) <=> (pc \notin {"saved", "failed"})
    /\ (response # NoResponse) => ~ENABLED Next
    /\ pc = "saved" =>
           /\ calls = <<>>
           /\ response.status = 200 /\ response.contentType = "application/pdf"
           /\ response.disposition = "attachment; filename=\"recommendations.pdf\""
           /\ response.pdf = <<[pages |-> pages, drawn |-> drawn]>> /\ response.json = <<>>
    /\ pc = "failed" =>
           /\ response.status = 500 /\ response.pdf = <<>>
           /\ Len(response.json) = 1
           /\ response.json[1].error = "Failed to generate PDF"
           /\ response.json[1].details \in ErrorDetails

\* a draw fails after other draws were made: the answer is the error alone
C17_Witness ==
    /\ pc = "failed" /\ Len(drawn) >= 2 /\ calls # <<>>
    /\ response.status = 500 /\ response.pdf = <<>>

----------------------------------------------------------------------------
(* Properties of drawWrappedText *)

RECURSIVE ConcatAll(_, _)
\* the sequences seqs[k..] joined end to end
ConcatAll(seqs, k) == IF k > Len(seqs) THEN <<>> ELSE seqs[k] \o ConcatAll(seqs, k + 1)

\* the words of each of the lines, in order
WordsOfLines(lines) == ConcatAll([k \in 1..Len(lines) |-> SplitWords(lines[k])], 1)

\* the words joined by single spaces
JoinWords(words) ==
    ConcatAll([k \in 1..Len(words) |-> IF k = 1 THEN words[k] ELSE <<" ">> \o words[k]], 1)

\* the texts of the draws that a step adds to the log
NewTexts == [k \in 1..(Len(drawn') - Len(drawn)) |-> drawn'[Len(drawn) + k].text]

\* lines is a greedy wrapping of the words: no word lost, repeated or out
\* of place; a line of several words fits the width; a line ends only where
\* the next word would not have fitted
GreedyLines(words, lines, o) ==
    /\ WordsOfLines(lines) = words
    /\ \A k \in 1..Len(lines) :
           /\ Len(lines[k]) > 0
           /\ lines[k] = JoinWords(SplitWords(lines[k]))
           /\ Len(SplitWords(lines[k])) > 1 => ~TooWide(lines[k], o.font, o.size, o.maxWidth)
           /\ k < Len(lines) =>
                  TooWide(lines[k] \o <<" ">> \o Head(SplitWords(lines[k + 1])), o.font, o.size, o.maxWidth)

\* C19: every round of drawWrappedText's loop over the paragraphs that does
\* not raise ends, and the lines it draws hold every word of the paragraph once and in order; a
\* word starts a new line exactly when adding it to the non-empty current
\* line would exceed the maximum width, so a line of several words measures
\* at most the maximum width and a word wider than it stands alone.
C19_GreedyWrap ==
    [][(pc = "drawing" /\ pc' = "drawing" /\ calls # <<>> /\ Head(calls).op = "wrapped") =>
           /\ Len(drawn') >= Len(drawn)
           /\ SubSeq(drawn', 1, Len(drawn)) = drawn
           /\ GreedyLines(IF Len(trim(Head(Head(calls).paragraphs))) = 0 THEN <<>>
                           ELSE SplitWords(trim(Head(Head(calls).paragraphs))),
                          NewTexts, Head(calls))]_vars

\* the paragraph with the overwide word has been drawn as three lines
C19_Witness ==
    /\ pc = "saved" /\ body = JStr(WrapRaw)
    /\ \E k \in 1..(Len(drawn) - 2) :
           /\ drawn[k].text = <<"a", "a", " ", "b", "b">>
           /\ drawn[k + 1].text = OverWord
           /\ drawn[k + 2].text = <<"c", "c", " ", "d", "d">>

----------------------------------------------------------------------------
(* Properties of the structured render *)

\* the render has ended with the PDF response
Saved == pc = "saved"

\* the texts of the draws d[k], k in idx, in order
TextsAt(d, idx) == [n \in 1..Len(idx) |-> d[idx[n]].text]

\* the draws of step lines: indented, size 10
StepIdx(d) == IndicesOf(d, LAMBDA k : d[k].x = margin + 12 /\ d[k].size = 10)

\* the draws of source lines: indented, size 9
SourceIdx(d) == IndicesOf(d, LAMBDA k : d[k].x = margin + 12 /\ d[k].size = 9)

\* the words of the elements of list, each prefixed with its number from 1
NumberedWords(list) ==
    IF ~IsArray(list) THEN <<>>
    ELSE ConcatAll([k \in 1..Len(list.v) |->
                       SplitWords(NumStr(k) \o <<".", " ">> \o StringOf(list.v[k]))], 1)

\* the numbered words of the field of every item, item after item
NumberedWordsOf(recommendations, field) ==
    ConcatAll([i \in 1..Len(recommendations) |-> NumberedWords(Get(recommendations[i], field))], 1)

\* C11: in every saved render the step lines, read word by word across all
\* pages, are the steps of the items in the sequence's order, each once
\* and prefixed with its number from 1: none dropped, repeated or moved at
\* a page break.
C11_StepsInOrder ==
    Saved => WordsOfLines(TextsAt(drawn, StepIdx(drawn))) = NumberedWordsOf(view.recommendations, kSteps)

\* the steps of the long item, two lines each, start on the first page and
\* end on a later one; the last step ends the log of step lines
C11_Witness ==
    /\ Saved /\ body = JArr(<<LongItem>>)
    /\ Len(StepIdx(drawn)) = 2 * MaxSteps
    /\ drawn[StepIdx(drawn)[1]].page = 1
    /\ drawn[StepIdx(drawn)[2 * MaxSteps]].page > 1
    /\ drawn[StepIdx(drawn)[2 * MaxSteps - 1]].text =
           NumStr(MaxSteps) \o <<".", " ", "d", "o", " ">> \o NumStr(MaxSteps) \o <<" ">> \o WideWord
    /\ drawn[StepIdx(drawn)[2 * MaxSteps]].text = WideWord

\* some line of the render starts with label
HasLine(label) == \E k \in 1..Len(drawn) : HasAt(drawn[k].text, 1, label)

\* a finite number, or a string that reads as one once $ and , are stripped
IsAmount(val) ==
    \/ val.t = "num"
    \/ /\ val.t = "str"
       /\ Len(trim(StripMoney(val.v))) > 0
       /\ \A k \in 1..Len(trim(StripMoney(val.v))) : IsDigit(trim(StripMoney(val.v))[k])

\* C12: in a saved render of a document with one item, each money field
\* (item initial and monthly cost, total initial and monthly cost, over-budget
\* amount) has its line iff its value is a finite number or a string that
\* reads as one once $ and , are stripped; for any other value (other
\* strings, the empty string, null, objects) there is no line.
C12_MoneyLines ==
    (Saved /\ Len(view.recommendations) = 1) =>
        /\ HasLine(sInitialCost) <=> IsAmount(Get(view.recommendations[1], kEstimatedInitialCost))
        /\ HasLine(sMonthlyCost) <=> IsAmount(Get(view.recommendations[1], kEstimatedMonthlyCost))
        /\ HasLine(sTotalInitial) <=> IsAmount(view.summary.totalEstimatedInitialCost)
        /\ HasLine(sTotalMonthly) <=> IsAmount(view.summary.totalEstimatedMonthlyCost)
        /\ HasLine(sOverBudget) <=> IsAmount(view.summary.totalEstimatedCostOverBudget)

\* a heading with this text has been drawn
HasHeading(txt) == \E k \in 1..Len(drawn) : drawn[k].text = txt /\ drawn[k].size = 18

\* the words drawn after the heading txt
WordsAfterHeading(txt) ==
    WordsOfLines(TextsAt(drawn, IndicesOf(drawn, LAMBDA k : \E h \in 1..(k - 1) :
                                                     drawn[h].text = txt /\ drawn[h].size = 18)))

\* C14: a saved render without recommendation items has exactly one
\* fallback section: the raw section with rawText when normalization gave a
\* rawText that is not blank, and the placeholder message when it gave none;
\* so an empty recommendations sequence with no rawText gives the
\* placeholder, whether an object, an array or a JSON string carried it.
C14_FallbackSection ==
    (Saved /\ Len(view.recommendations) = 0) =>
        /\ HasHeading(sRawHeading) # HasHeading(sNoneHeading)
        /\ ~HasHeading(sRecommendations)
        /\ (norm.rawText # Undefined /\ Len(trim(norm.rawText.v)) > 0) =>
               (HasHeading(sRawHeading) /\ WordsAfterHeading(sRawHeading) = SplitWords(norm.rawText.v))
        /\ norm.rawText = Undefined =>
               (HasHeading(sNoneHeading) /\ WordsAfterHeading(sNoneHeading) = SplitWords(sPlaceholder))

\* a summary field that is there: neither absent nor null
Present(val) == val # Undefined /\ val # JNull

\* C15: in a saved render the Summary heading is drawn only if at least one
\* summary field is present; with totalEstimatedCostOverBudget null there
\* is no Over Budget line; a document whose summary fields are all absent
\* or null has no summary block.
C15_SummaryBlock ==
    Saved =>
        /\ HasHeading(sSummary) =>
               \/ Present(view.summary.totalEstimatedInitialCost)
               \/ Present(view.summary.totalEstimatedMonthlyCost)
               \/ Present(view.summary.notes)
               \/ Present(view.summary.totalEstimatedCostOverBudget)
               \/ Present(view.summary.overBudgetReason)
        /\ view.summary.totalEstimatedCostOverBudget = JNull => ~HasLine(sOverBudget)

----------------------------------------------------------------------------
(* Properties of the item blocks *)

\* the draws of item titles: size 14
TitleIdx(d) == IndicesOf(d, LAMBDA k : d[k].size = 14)

\* draw k belongs to the block of item i: from its title up to the next title
InBlock(t, i, k) == i <= Len(t) /\ t[i] <= k /\ (i < Len(t) => k < t[i + 1])

\* some draw in the block of item i starts with label
BlockHasLine(i, label) ==
    \E k \in 1..Len(drawn) : InBlock(TitleIdx(drawn), i, k) /\ HasAt(drawn[k].text, 1, label)

\* the title of item i when it shows the value val
TitleWith(i, val) == NumStr(i) \o <<".", " ">> \o StringOf(val)

\* C16: in a saved render, for every item, an absent optional field gives
\* no line and no substituted text: the title shows the item's serviceName
\* or serviceId and nothing put in their place, and absent costs, steps,
\* specificRecommendations and sources leave no line in the item's block.
C16_AbsentFields ==
    Saved => \A i \in 1..Len(view.recommendations) :
        /\ i <= Len(TitleIdx(drawn))
        /\ drawn[TitleIdx(drawn)[i]].text \in
               {TitleWith(i, val) : val \in {Get(view.recommendations[i], kServiceName),
                                             Get(view.recommendations[i], kServiceId)} \ {Undefined}}
        /\ Get(view.recommendations[i], kEstimatedInitialCost) = Undefined => ~BlockHasLine(i, sInitialCost)
        /\ Get(view.recommendations[i], kEstimatedMonthlyCost) = Undefined => ~BlockHasLine(i, sMonthlyCost)
        /\ Get(view.recommendations[i], kSteps) = Undefined => ~BlockHasLine(i, sSteps)
        /\ Get(view.recommendations[i], kSpecificRecommendations) = Undefined =>
               ~BlockHasLine(i, sRecommendationsLabel)
        /\ Get(view.recommendations[i], kSources) = Undefined => ~BlockHasLine(i, sSources)

\* a value that is no string, number, null or absent field
IsComposite(val) == val.t \in {"obj", "arr", "bool"}

\* the items that are objects
ObjectItems(recommendations) == SelectSeq(recommendations, isPlainObject)

\* C18: in a saved render a field of a malformed type is treated as absent:
\* a cost that is an object, steps or sources that is a string, and a
\* serviceName, specificRecommendations, notes or overBudgetReason that is
\* an object leave no line and no text of theirs, and an item that is null
\* or a primitive gets no block.
C18_MalformedAbsent ==
    Saved =>
        /\ Len(TitleIdx(drawn)) = Len(ObjectItems(view.recommendations))
        /\ isPlainObject(view.summary.notes) => ~HasLine(sNotes)
        /\ isPlainObject(view.summary.overBudgetReason) => ~HasLine(sReason)
        /\ \A i \in 1..Len(view.recommendations) :
               /\ i <= Len(TitleIdx(drawn))
               /\ isPlainObject(Get(view.recommendations[i], kServiceName)) =>
                      drawn[TitleIdx(drawn)[i]].text #
                          TitleWith(i, Get(view.recommendations[i], kServiceName))
               /\ IsComposite(Get(view.recommendations[i], kEstimatedInitialCost)) =>
                      ~BlockHasLine(i, sInitialCost)
               /\ IsComposite(Get(view.recommendations[i], kEstimatedMonthlyCost)) =>
                      ~BlockHasLine(i, sMonthlyCost)
               /\ IsString(Get(view.recommendations[i], kSteps)) => ~BlockHasLine(i, sSteps)
               /\ IsString(Get(view.recommendations[i], kSources)) => ~BlockHasLine(i, sSources)
               /\ isPlainObject(Get(view.recommendations[i], kSpecificRecommendations)) =>
                      ~BlockHasLine(i, sRecommendationsLabel)

----------------------------------------------------------------------------
(* Properties of the section order *)

\* the place of a draw in an item's block: title 1, initial cost 2, monthly
\* cost 3, steps label 4, step line 5, recommendations label 6, its text 7,
\* sources label 8, source line 9, divider 10; 0 for any other draw
Rank(d) ==
    IF d.size = 14 THEN 1
    ELSE IF d.text = sDivider THEN 10
    ELSE IF d.size = 11 /\ HasAt(d.text, 1, sInitialCost) THEN 2
    ELSE IF d.size = 11 /\ HasAt(d.text, 1, sMonthlyCost) THEN 3
    ELSE IF d.font = helveticaBoldFont /\ d.text = sSteps THEN 4
    ELSE IF d.x = margin + 12 /\ d.size = 10 THEN 5
    ELSE IF d.font = helveticaBoldFont /\ d.text = sRecommendationsLabel THEN 6
    ELSE IF d.x = margin /\ d.size = 10 /\ d.font = helveticaFont THEN 7
    ELSE IF d.font = helveticaBoldFont /\ d.text = sSources THEN 8
    ELSE IF d.x = margin + 12 /\ d.size = 9 THEN 9
    ELSE 0

\* the draws of d in the block of item i among idx, as texts in order
BlockTexts(d, t, i, idx) == TextsAt(d, SelectSeq(idx, LAMBDA k : InBlock(t, i, k)))

\* title first, then the generation date
TitleThenDate(d) ==
    /\ Len(d) >= 2
    /\ d[1].text = sTitle /\ d[1].size = 24
    /\ HasAt(d[2].text, 1, SubSeq(sGenerated, 1, 14)) /\ d[2].size = 10

\* between the date and the draw at h: nothing, or the Summary heading, its
\* lines and one divider that ends the block
SummaryBefore(d, h) ==
    \/ h = 3
    \/ /\ h >= 5
       /\ d[3].text = sSummary /\ d[3].size = 18
       /\ d[h - 1].text = sDivider
       /\ \A k \in 4..(h - 2) : d[k].text # sDivider /\ d[k].size \in {11, 12}

\* from the first item title on: one block per item, numbered from 1, each
\* in the order of Rank and closed by a divider
BlocksInOrder(d, t, recommendations) ==
    /\ Len(t) = Len(recommendations)
    /\ d[Len(d)].text = sDivider
    /\ \A i \in 1..Len(t) : HasAt(d[t[i]].text, 1, NumStr(i) \o <<".", " ">>)
    /\ \A k \in t[1]..Len(d) : Rank(d[k]) > 0
    /\ \A k \in t[1]..(Len(d) - 1) :
           IF Rank(d[k]) = 10 THEN Rank(d[k + 1]) = 1
           ELSE \/ Rank(d[k]) < Rank(d[k + 1])
                \/ Rank(d[k]) = Rank(d[k + 1]) /\ Rank(d[k]) \in {5, 7, 9}

\* the step lines of each block are the item's steps numbered from 1
StepsNumbered(d, t, recommendations) ==
    \A i \in 1..Len(t) :
        WordsOfLines(BlockTexts(d, t, i, StepIdx(d))) = NumberedWords(Get(recommendations[i], kSteps))

\* the source lines of each block are the item's sources numbered from 1
SourcesNumbered(d, t, recommendations) ==
    \A i \in 1..Len(t) :
        WordsOfLines(BlockTexts(d, t, i, SourceIdx(d))) = NumberedWords(Get(recommendations[i], kSources))

\* C13: every saved render draws the title, then the date, then the
\* optional summary block closed by a divider, then the Recommendations
\* heading and one block per item i = 1..n: the title numbered i, the costs,
\* the steps numbered from 1, the free-text recommendation and the numbered
\* sources, closed by a divider; page breaks do not change the order.
C13_SectionOrder ==
    Saved =>
        /\ TitleThenDate(drawn)
        /\ Len(view.recommendations) > 0 =>
               /\ Len(TitleIdx(drawn)) > 0
               /\ TitleIdx(drawn)[1] >= 4
               /\ drawn[TitleIdx(drawn)[1] - 1].text = sRecommendations
               /\ drawn[TitleIdx(drawn)[1] - 1].size = 18
               /\ SummaryBefore(drawn, TitleIdx(drawn)[1] - 1)
               /\ BlocksInOrder(drawn, TitleIdx(drawn), view.recommendations)
               /\ StepsNumbered(drawn, TitleIdx(drawn), view.recommendations)
               /\ SourcesNumbered(drawn, TitleIdx(drawn), view.recommendations)

====
